---- MODULE Spec2Model ----
(***************************************************************************)
(* Dock controller for a wearable sensor device.                           *)
(*                                                                         *)
(* Two programs are modelled, each as the single thread it is, with the    *)
(* processes it forks and the signal handlers that interrupt it:           *)
(*   prog = "dfu"  : dfu_and_extract.c (DFU + LittleFS extractor)          *)
(*   prog = "dock" : wearable_dock.c   (exFAT extractor + MQTT publisher)  *)
(* pc is the position of the program's thread; the names of the positions  *)
(* of the two programs are disjoint, so every action belongs to one        *)
(* program.                                                                *)
(***************************************************************************)
EXTENDS Integers, Sequences, FiniteSets, TLC

(* ------------------------------ bounds --------------------------------- *)
\* bus events the environment generates in one run
MaxEvents == 4
\* events waiting in the monitor's socket
MaxQueue == 2
\* device visits started in one run
MaxVisits == 2
\* SIGINT/SIGTERM deliveries in one run
MaxSignals == 1
\* the clock value after which the environment generates no further event
MaxNow == 1100
\* the longest path component given to join_path / path_join
MaxLen == 4
\* PATH_MAX, scaled down; also the largest capacity given to join_path
PathMax == 8
\* the largest log file, in buffers of 4096 bytes
MaxChunks == 2
\* the most telemetry files in a session, and the longest of them in bytes
MaxFiles == 2
MaxFileLen == 41

(* ------------------------- program constants --------------------------- *)
\* now_ms() - remove_seen_at_ms > 500
DebounceMs == 500
\* poll(&pfd, 1, 1000)
PollTimeoutMs == 1000
\* CLOCK_MONOTONIC when the program starts (positive)
StartMs == 1
\* how long poll() blocks before an event arrives
PollDelays == {0, 400}
\* SIGINT, SIGTERM
Signals == {2, 15}
\* int tries = 50
MarkerTries == 50

Paths == {"usb1", "usb2"}
NoPath == ""

\* a bus event: action, whether vendor/product match the wearable, bus path
Events ==
    [action : {"add", "remove"}, match : {TRUE}, path : Paths]
        \cup [action : {"add"}, match : {FALSE}, path : {"usb2"}]

VARIABLES
    prog,                \* which program runs
    pc,                  \* position of the program's thread
    quit_flag,           \* static volatile sig_atomic_t quit_flag
    queue,               \* events received by the monitor, not yet read
    events_sent,         \* events generated so far
    signals_sent,        \* SIGINT/SIGTERM delivered so far
    now,                 \* CLOCK_MONOTONIC in ms
    debouncing,          \* static int debouncing
    remove_seen_at_ms,   \* static long remove_seen_at_ms
    current_usb_path,    \* static char current_usb_path[]
    spath,               \* main's local: syspath of the event being handled
    visits,              \* handle_device invocations started
    remove_consumed,     \* history: a matching remove was read since the last visit returned
    dup_add_ignored,     \* history: a matching add was read and did not start a visit
    child,               \* run_child's child: "none", "running", "zombie", "reaped"
    child_fate,          \* how that child ended: "none" or a member of Fates
    rc_site,             \* the call site of the run_child in progress
    run_child_ret,       \* {the value the last run_child returned}, {} before
    lister,              \* get_dfu_serial's child: "none", "forked", "running",
                         \*   "zombie", "reaped", "clone" (exec failed, runs the caller's code)
    pipe_line,           \* the pipe holds a line with the device's serial
    helper,              \* start_lfs's child: "none", "starting", "mounted", "zombie", "reaped"
    lfs_pid,             \* static volatile sig_atomic_t lfs_pid
    start_lfs_ret,       \* the value start_lfs returned, before it is stored
    fw_dir,              \* names in FW_DIR
    fw_archive,          \* images moved into FW_ARCHIVE
    fw,                  \* handle_device's local: the image next_firmware returned
    dfu_ret,             \* {what perform_dfu returned in this visit}, {} if not called
    detach_fate,         \* history: how this visit's detach child ended
    download_fate,       \* history: how this visit's download child ended
    stage,               \* history: what happened in this visit
    add_in_window,       \* history: a matching add was read inside the window after a remove
    target_action,       \* wait_for_device's argument
    tries,               \* handle_device's local: polls left for the logs directory
    marker,              \* the logs directory exists on the mounted volume
    mounted,             \* a volume is mounted at the mount point
    mp_kind,             \* what MOUNT_POINT is: "absent", "dir", "file"
    jp_a,                \* join_path / path_join: argument a, a string as a sequence
    jp_b,                \* argument b
    jp_cap,              \* the capacity of out (out_sz, PATH_MAX)
    jp_out,              \* what the call wrote into out (<<>>: nothing)
    jp_ret,              \* {the value returned}, {} before the call
    jp_used,             \* the path the caller goes on to use (<<>>: none)
    cp_dir0,             \* copy_and_delete_logs: the names in src_logs at the call
    cp_card,             \* the names in src_logs now
    cp_session,          \* per name, the chunks of it in dest_logs (-1: no such file)
    cp_left,             \* the entries readdir has not returned yet
    cp_cur,              \* de->d_name of the file in hand (<<>>: none)
    cp_in,               \* copy_file: chunks fread has delivered
    cp_out,              \* copy_file: chunks fwrite has accepted
    cp_in_err,           \* copy_file: the error indicator of in
    cp_rc,               \* copy_file: rc, and the value it returned
    cp_visited,          \* history: the matching names the loop took up, in order
    cp_ok,               \* history: the names for which copy_file returned 0
    cl_ret,              \* {the value copy_and_delete_logs returned}, {} before
    pb_files,            \* the publishing cycle: the lengths in bytes of the telemetry files
    pb_cur,              \* the index of the file that is open (0: none)
    pb_pos,              \* the bytes of it that fread has consumed
    pb_emitted,          \* the offsets of the records of it that were published
    pb_log,              \* history: per file read to its end, its length, the
                         \*   offsets published, the error indicator, the report
    mq_calls,            \* history: the mosquitto calls made on the client, in order
    pb_ret,              \* {the value the cycle returned}, {} before
    dc_buf,              \* decoding: uint8_t buf[RECORD_SIZE], a sequence of bytes
    dc_out,              \* the payload snprintf produced, as <<key, value>> pairs
    ar_root0,            \* archiving: per name, what the archive root held at the call
    ar_root,             \* per name, what the archive root holds now
    ar_name,             \* the name of the session directory
    ar_session,          \* the session directory is "in_place" or "moved"
    ar_ret,              \* {the value returned / the exit status}, {} before
    dev_files,           \* dfu_and_extract.c: the files in the flash of the device
    copied,              \* the files copy_tree copied in this visit
    removed,             \* the files clear_tree removed in this visit
    copy_ret             \* {the value of copy_tree(...) in the if that tests it}, {} otherwise

loopVars == <<debouncing, remove_seen_at_ms, current_usb_path, spath>>
envVars == <<queue, events_sent, signals_sent, now>>
histVars == <<remove_consumed, dup_add_ignored, add_in_window>>
dockVars == <<target_action, tries, marker, mounted, mp_kind>>
joinVars == <<jp_a, jp_b, jp_cap, jp_out, jp_ret, jp_used>>
\* the state of the functions modelled on their own
copyVars == <<cp_dir0, cp_card, cp_session, cp_left, cp_cur, cp_in, cp_out,
              cp_in_err, cp_rc, cp_visited, cp_ok, cl_ret>>
pubVars == <<pb_files, pb_cur, pb_pos, pb_emitted, pb_log, mq_calls, pb_ret>>
decVars == <<dc_buf, dc_out>>
archVars == <<ar_root0, ar_root, ar_name, ar_session, ar_ret>>
fnVars == <<joinVars, copyVars, pubVars, decVars, archVars>>
\* the tree at the mount point of dfu_and_extract.c and what a visit did to it
treeVars == <<dev_files, copied, removed, copy_ret>>
subVars == <<fnVars, treeVars>>
progVars == <<prog, dockVars, subVars>>
rcVars == <<child, child_fate, rc_site, run_child_ret>>
listVars == <<lister, pipe_line>>
lfsVars == <<helper, lfs_pid, start_lfs_ret>>
fwVars == <<fw_dir, fw_archive, fw, dfu_ret, detach_fate, download_fate>>
procVars == <<rcVars, listVars, lfsVars>>
visitVars == <<procVars, fwVars, stage>>
vars == <<progVars, pc, quit_flag, visits, loopVars, envVars, histVars, visitVars>>
\* the state of the two hotplug programs but the position of the thread
hostVars == <<prog, dockVars, quit_flag, visits, loopVars, envVars, histVars, visitVars,
              treeVars>>

\* exit(0), exit(non-zero), _exit(127) after a failed exec, death by a signal
Fates == {"exit0", "exit1", "exit127", "killed"}

\* names that can be in the watched firmware directory
NoFw == "NULL"
FwDirs == {{"old.bin.done"}, {"fw1.bin", "fw2.bin", "old.bin.done"}}

(* ------------------------------ initial -------------------------------- *)
\* nothing has arrived yet
InitEnv ==
    /\ quit_flag = 0
    /\ queue = <<>>
    /\ events_sent = 0
    /\ signals_sent = 0
    /\ now = StartMs

\* the statics of the main loop as initialised, no visit yet
InitLoop ==
    /\ debouncing = 0
    /\ remove_seen_at_ms = 0
    /\ current_usb_path = NoPath
    /\ spath = NoPath
    /\ visits = 0
    /\ remove_consumed = FALSE
    /\ dup_add_ignored = FALSE
    /\ add_in_window = FALSE

\* no child process, no visit in progress
InitVisit ==
    /\ child = "none"
    /\ child_fate = "none"
    /\ rc_site = "none"
    /\ run_child_ret = {}
    /\ lister = "none"
    /\ pipe_line = FALSE
    /\ helper = "none"
    /\ lfs_pid = -1
    /\ start_lfs_ret = -1
    /\ fw_archive = {}
    /\ fw = NoFw
    /\ dfu_ret = {}
    /\ detach_fate = "none"
    /\ download_fate = "none"
    /\ stage = {}
    /\ target_action = "none"
    /\ tries = 0
    /\ marker = FALSE
    /\ mounted = FALSE
    /\ copied = {}
    /\ removed = {}
    /\ copy_ret = {}

\* no call of join_path / path_join in progress
InitJoin ==
    /\ jp_a = <<>>
    /\ jp_b = <<>>
    /\ jp_cap = 0
    /\ jp_out = <<>>
    /\ jp_ret = {}
    /\ jp_used = <<>>

\* the names a logs directory of the model can hold
DirNames ==
    { <<".", "a", ".", "B", "I", "N">>,
      <<"n", ".", "t", "x", "t">>,
      <<"a", ".", "B", "I", "N">>,
      <<"b", ".", "b", "i", "n">>,
      <<"c", "c", ".", "B", "I", "N">> }

\* no call of copy_and_delete_logs in progress
InitCopy ==
    /\ cp_dir0 = {}
    /\ cp_card = {}
    /\ cp_session = [n \in DirNames |-> -1]
    /\ cp_left = {}
    /\ cp_cur = <<>>
    /\ cp_in = 0
    /\ cp_out = 0
    /\ cp_in_err = FALSE
    /\ cp_rc = 0
    /\ cp_visited = <<>>
    /\ cp_ok = {}
    /\ cl_ret = {}

\* no publishing cycle in progress
InitPub ==
    /\ pb_files = <<>>
    /\ pb_cur = 0
    /\ pb_pos = 0
    /\ pb_emitted = <<>>
    /\ pb_log = <<>>
    /\ mq_calls = <<>>
    /\ pb_ret = {}

\* no record being decoded
InitDec ==
    /\ dc_buf = <<>>
    /\ dc_out = <<>>

\* the session names of the model, and what a name can be in the archive root
ArchNames == {"s1", "s2"}
EntryKinds == {"absent", "empty_dir", "full_dir", "file"}

\* no session being archived
InitArch ==
    /\ ar_root0 = [n \in ArchNames |-> "absent"]
    /\ ar_root = ar_root0
    /\ ar_name = "s1"
    /\ ar_session = "in_place"
    /\ ar_ret = {}

InitSub == InitJoin /\ InitCopy /\ InitPub /\ InitDec /\ InitArch

\* a device with nothing in its flash
NoFiles == dev_files = {}

\* what can be found at MOUNT_POINT when the program starts: nothing, a
\* directory, or a stale entry that is not a directory
MountPointKinds == {"absent", "dir", "file"}

InitCommon == InitEnv /\ InitLoop /\ InitVisit /\ InitSub /\ NoFiles

InitDfu ==
    /\ prog = "dfu"
    /\ pc = "main_while"
    /\ fw_dir \in FwDirs
    /\ InitCommon
    /\ mp_kind = "dir"

InitDock ==
    /\ prog = "dock"
    /\ pc = "w_while"
    /\ fw_dir = {}
    /\ InitCommon
    /\ mp_kind \in MountPointKinds

Init == InitDfu \/ InitDock

(* ---------------------------- environment ------------------------------ *)
\* The thread is blocked in poll(): in the dfu main loop, in wait_for_device.
InPoll == pc \in {"main_poll", "wfd_poll"}

\* handle_device has just returned. The events that arrived while the thread
\* was inside it wait in the socket: the visit never reads the socket, so
\* they are appended here, in their order of arrival.
VisitReturned == pc \in {"main_after_visit", "w_after_visit"}

\* A bus event reaches the monitor's socket: during a visit (it is queued),
\* or while the thread is blocked in poll (after d ms).
EnvEvent ==
    /\ events_sent < MaxEvents
    /\ Len(queue) < MaxQueue
    /\ \E e \in Events :
        \E d \in PollDelays :
            /\ \/ InPoll /\ queue = <<>> /\ now + d <= MaxNow
               \/ VisitReturned /\ d = 0
            /\ prog = "dock" => d = 0
            /\ queue' = Append(queue, e)
            /\ now' = now + d
    /\ events_sent' = events_sent + 1
    /\ UNCHANGED <<progVars, pc, quit_flag, visits, loopVars, signals_sent, histVars, visitVars>>

(* ------------------- dfu_and_extract.c: main loop ---------------------- *)
\* while (!quit_flag)
MainWhile ==
    /\ pc = "main_while"
    /\ pc' = IF quit_flag # 0 THEN "main_exit" ELSE "main_debounce"
    /\ UNCHANGED <<progVars, quit_flag, visits, loopVars, envVars, histVars, visitVars>>

\* the quiescence test with the subtraction the wrong way round
DebounceElapsed_Reversed ==
    debouncing # 0 /\ remove_seen_at_ms > 0 /\ remove_seen_at_ms - now > DebounceMs

\* the quiescence test at the top of the loop body
DebounceElapsed ==
    debouncing # 0 /\ remove_seen_at_ms > 0 /\ now - remove_seen_at_ms > DebounceMs

MainDebounce ==
    /\ pc = "main_debounce"
    /\ IF DebounceElapsed
       THEN /\ debouncing' = 0
            /\ current_usb_path' = NoPath
            /\ remove_seen_at_ms' = 0
       ELSE UNCHANGED <<debouncing, current_usb_path, remove_seen_at_ms>>
    /\ pc' = "main_poll"
    /\ UNCHANGED <<progVars, quit_flag, visits, spath, envVars, histVars, visitVars>>

\* poll() returns > 0: an event is readable
MainPollReady ==
    /\ pc = "main_poll"
    /\ queue # <<>>
    /\ pc' = "main_dispatch"
    /\ UNCHANGED <<progVars, quit_flag, visits, loopVars, envVars, histVars, visitVars>>

\* poll() returns 0 after 1 s: continue
MainPollTimeout ==
    /\ pc = "main_poll"
    /\ queue = <<>>
    /\ now <= MaxNow
    /\ now' = now + PollTimeoutMs
    /\ pc' = "main_while"
    /\ UNCHANGED <<progVars, quit_flag, visits, loopVars, queue, events_sent, signals_sent, histVars, visitVars>>

\* the first branch without its test of debouncing
AcceptsAdd_WhileDebouncing(e) ==
    e.action = "add" /\ e.match

\* the first branch of the dispatch: first "add" after a real plug-in
AcceptsAdd(e) ==
    debouncing = 0 /\ e.action = "add" /\ e.match

\* the second branch: any "remove" of that usb_device
MatchesRemove(e) ==
    debouncing # 0 /\ e.action = "remove" /\ e.path = current_usb_path

\* a remove of the recorded path was read and no more than 500 ms have passed
InWindow ==
    debouncing # 0 /\ remove_seen_at_ms > 0 /\ now - remove_seen_at_ms <= DebounceMs

\* udev_monitor_receive_device and the two branches on the event
MainDispatch ==
    /\ pc = "main_dispatch"
    /\ LET e == Head(queue) IN
        /\ queue' = Tail(queue)
        /\ IF AcceptsAdd(e)
           THEN /\ visits < MaxVisits
                /\ visits' = visits + 1
                /\ spath' = e.path
                /\ pc' = "hd_next_firmware"
                /\ UNCHANGED <<debouncing, remove_seen_at_ms, current_usb_path, histVars, visitVars>>
           ELSE /\ pc' = "main_while"
                /\ IF MatchesRemove(e)
                   THEN /\ remove_seen_at_ms' = now
                        /\ remove_consumed' = TRUE
                        /\ add_in_window' = FALSE
                        /\ UNCHANGED dup_add_ignored
                   ELSE /\ dup_add_ignored' =
                                (dup_add_ignored \/ (e.action = "add" /\ e.match))
                        /\ add_in_window' =
                                (add_in_window \/ (e.action = "add" /\ e.match /\ InWindow))
                        /\ UNCHANGED <<remove_seen_at_ms, remove_consumed>>
                /\ UNCHANGED <<visits, debouncing, current_usb_path, spath>>
    /\ UNCHANGED <<progVars, quit_flag, events_sent, signals_sent, now, visitVars>>

(* ------------------ dfu_and_extract.c: run_child ----------------------- *)
\* WIFEXITED(st) ? WEXITSTATUS(st) : -1
StatusValue(st) ==
    CASE st = "exit0" -> 0
      [] st = "exit1" -> 1
      [] st = "exit127" -> 127
      [] OTHER -> -1

\* a caller that gives up the whole program when mount fails
AfterRunChild_MountFailureExits(site, ret) ==
    CASE site = "detach" -> IF ret # 0 THEN "hd_find" ELSE "pd_download"
      [] site = "download" -> IF ret # 0 THEN "hd_find" ELSE "pd_archive"
      [] site = "umount_mp" -> "hd_waitpid_lfs"
      [] site = "stale_umount" -> "me_mount"
      [] site = "mount" -> IF ret # 0 THEN "w_exit" ELSE "whd_marker_init"
      [] site = "timeout_umount" -> "w_after_visit"
      [] site = "session_umount" -> "w_after_visit"
      [] OTHER -> "whd_publish"

\* where the caller continues when run_child returns ret
AfterRunChild(site, ret) ==
    CASE site = "detach" -> IF ret # 0 THEN "hd_find" ELSE "pd_download"
      [] site = "download" -> IF ret # 0 THEN "hd_find" ELSE "pd_archive"
      [] site = "umount_mp" -> "hd_waitpid_lfs"
      [] site = "stale_umount" -> "me_mount"
      [] site = "mount" -> IF ret # 0 THEN "w_after_visit" ELSE "whd_marker_init"
      [] site = "timeout_umount" -> "w_after_visit"
      [] site = "session_umount" -> "w_after_visit"
      [] OTHER -> "whd_publish"

\* perform_dfu returns -1 when a step's run_child is not 0
DfuRetAfter(site, ret) ==
    IF site \in {"detach", "download"} /\ ret # 0 THEN {-1} ELSE dfu_ret

\* the call sites of ensure_unmounted in wearable_dock.c
UmountSites == {"stale_umount", "timeout_umount", "session_umount", "umount"}

\* fork(): it fails and run_child returns -1, or the child runs
RunChildFork ==
    /\ pc = "rc_fork"
    /\ \/ /\ run_child_ret' = {-1}
          /\ pc' = AfterRunChild(rc_site, -1)
          /\ dfu_ret' = DfuRetAfter(rc_site, -1)
          /\ child' = "none"
          /\ child_fate' = "none"
       \/ /\ child' = "running"
          /\ child_fate' = "none"
          /\ run_child_ret' = {}
          /\ pc' = "rc_forked"
          /\ UNCHANGED dfu_ret
    /\ UNCHANGED <<progVars, quit_flag, visits, loopVars, envVars, histVars, rc_site,
                   listVars, lfsVars, fw_dir, fw_archive, fw, detach_fate,
                   download_fate, stage>>

\* the parent enters waitpid(pid, &st, 0)
RunChildEnterWait ==
    /\ pc = "rc_forked"
    /\ pc' = "rc_waitpid"
    /\ UNCHANGED <<progVars, quit_flag, visits, loopVars, envVars, histVars, visitVars>>

\* the child ends: it exits (127 when execvp failed) or a signal kills it.
\* mount(8) does not succeed on a mount point that is not a directory.
\* A successful umount detaches the file system the helper serves.
ChildExit ==
    /\ child = "running"
    /\ \E f \in Fates :
        /\ (rc_site = "mount" /\ f = "exit0") => mp_kind = "dir"
        /\ child_fate' = f
        /\ detach_fate' = IF rc_site = "detach" THEN f ELSE detach_fate
        /\ download_fate' = IF rc_site = "download" THEN f ELSE download_fate
        /\ helper' = IF rc_site = "umount_mp" /\ f = "exit0" /\ helper = "mounted"
                     THEN "unmounting" ELSE helper
        /\ mounted' = CASE f = "exit0" /\ rc_site = "mount" -> TRUE
                         [] f = "exit0" /\ rc_site \in UmountSites -> FALSE
                         [] OTHER -> mounted
    /\ child' = "zombie"
    /\ UNCHANGED <<prog, subVars, target_action, tries, marker, mp_kind, pc, quit_flag, visits, loopVars, envVars, histVars, rc_site,
                   run_child_ret, listVars, lfs_pid, start_lfs_ret, fw_dir,
                   fw_archive, fw, dfu_ret, stage>>

\* the values `st` can hold when waitpid returns: the child's status, or, when
\* the SIGCHLD handler already collected the child (waitpid fails with ECHILD
\* and st was never written), any value
StatusAfterWait ==
    IF child = "zombie" THEN {child_fate} ELSE Fates

\* dfu_and_extract.c: waitpid(pid, &st, 0);
\*                    return WIFEXITED(st) ? WEXITSTATUS(st) : -1;
run_child_dfu == {StatusValue(st) : st \in StatusAfterWait}

\* wearable_dock.c: if (waitpid(pid, &st, 0) < 0) return -1;
\*                  if (WIFEXITED(st)) return WEXITSTATUS(st); return -1;
run_child_dock == {IF child = "zombie" THEN StatusValue(child_fate) ELSE -1}

\* waitpid returns and run_child returns
RunChildWaitpid ==
    /\ pc = "rc_waitpid"
    /\ child \in {"zombie", "reaped"}
    /\ \E ret \in (IF prog = "dfu" THEN run_child_dfu ELSE run_child_dock) :
            /\ run_child_ret' = {ret}
            /\ pc' = AfterRunChild(rc_site, ret)
            /\ dfu_ret' = DfuRetAfter(rc_site, ret)
    /\ child' = "reaped"
    /\ UNCHANGED <<progVars, quit_flag, visits, loopVars, envVars, histVars, child_fate,
                   rc_site, listVars, lfsVars, fw_dir, fw_archive, fw, detach_fate,
                   download_fate, stage>>

(* ---------------- dfu_and_extract.c: signal handlers ------------------- *)
\* the thread is inside a waitpid whose child is a zombie: that waitpid
\* collects it before the pending SIGCHLD is delivered
WaitpidCollects ==
    \/ pc = "rc_waitpid" /\ child = "zombie"
    \/ pc = "gs_waitpid" /\ lister = "zombie"
    \/ pc = "hd_waitpid_lfs" /\ helper = "zombie"

\* a handler that collects nothing
Reaped_Nothing(p) == p

\* waitpid collects a child that has exited
Reaped(p) == IF p = "zombie" THEN "reaped" ELSE p

\* SIGCHLD: while (waitpid(-1, NULL, WNOHANG) > 0) ;
reap ==
    /\ prog = "dfu"
    /\ "zombie" \in {child, lister, helper}
    /\ ~WaitpidCollects
    /\ child' = Reaped(child)
    /\ lister' = Reaped(lister)
    /\ helper' = Reaped(helper)
    /\ pc' = IF pc = "main_poll" THEN "main_while" ELSE pc
    /\ UNCHANGED <<progVars, quit_flag, visits, loopVars, envVars, histVars, child_fate,
                   rc_site, run_child_ret, pipe_line, lfs_pid, start_lfs_ret, fwVars,
                   stage>>

\* SIGINT/SIGTERM: if (lfs_pid > 0) kill(lfs_pid, sig); quit_flag = sig;
\* a helper that receives the signal exits; poll() returns EINTR
forward_quit ==
    /\ prog = "dfu"
    /\ signals_sent < MaxSignals
    /\ pc # "main_exit"
    /\ \E sig \in Signals : quit_flag' = sig
    /\ signals_sent' = signals_sent + 1
    /\ helper' = IF lfs_pid > 0 /\ helper \in {"starting", "mounted", "unmounting"}
                 THEN "zombie" ELSE helper
    /\ pc' = IF pc = "main_poll" THEN "main_while" ELSE pc
    /\ UNCHANGED <<progVars, visits, loopVars, queue, events_sent, now, histVars, rcVars,
                   listVars, lfs_pid, start_lfs_ret, fwVars, stage>>

(* ---------------- dfu_and_extract.c: firmware update ------------------- *)
\* strstr(name, ".bin") && !strstr(name, ".bin.done")
IsCandidate(name) ==
    /\ name \in {"fw1.bin", "fw2.bin", "old.bin.done"}
    /\ name # "old.bin.done"

\* next_firmware: the first candidate in readdir order (any of them), or NULL
next_firmware ==
    IF \E n \in fw_dir : IsCandidate(n)
    THEN {n \in fw_dir : IsCandidate(n)}
    ELSE {NoFw}

\* handle_device starts: fw = next_firmware()
HandleDeviceStart ==
    /\ pc = "hd_next_firmware"
    /\ \E f \in next_firmware :
        /\ fw' = f
        /\ pc' = IF f = NoFw THEN "hd_find" ELSE "gs_fork"
    /\ dfu_ret' = {}
    /\ detach_fate' = "none"
    /\ download_fate' = "none"
    /\ stage' = {}
    /\ UNCHANGED <<progVars, quit_flag, visits, loopVars, envVars, histVars, procVars,
                   fw_dir, fw_archive>>

\* get_dfu_serial: pipe() or fork() fails (-1), or the child is forked
GetSerialFork ==
    /\ pc = "gs_fork"
    /\ \/ /\ pc' = "hd_find"
          /\ dfu_ret' = {-1}
          /\ UNCHANGED <<lister, pipe_line>>
       \/ /\ lister' = "forked"
          /\ pipe_line' = FALSE
          /\ pc' = "gs_read"
          /\ UNCHANGED dfu_ret
    /\ UNCHANGED <<progVars, quit_flag, visits, loopVars, envVars, histVars, rcVars,
                   lfsVars, fw_dir, fw_archive, fw, detach_fate, download_fate, stage>>

\* the child's execvp of dfu-util succeeds
ListerExec ==
    /\ lister = "forked"
    /\ lister' = "running"
    /\ UNCHANGED <<progVars, pc, quit_flag, visits, loopVars, envVars, histVars, rcVars,
                   pipe_line, lfsVars, fwVars, stage>>

\* the child's execvp fails: no _exit follows, the child goes on in the
\* caller's code with its stdout on the pipe
ListerExecFails ==
    /\ lister = "forked"
    /\ lister' = "clone"
    /\ UNCHANGED <<progVars, pc, quit_flag, visits, loopVars, envVars, histVars, rcVars,
                   pipe_line, lfsVars, fwVars, stage>>

\* dfu-util -l prints the line of the wearable with serial=
ListerPrints ==
    /\ lister = "running"
    /\ ~pipe_line
    /\ pipe_line' = TRUE
    /\ UNCHANGED <<progVars, pc, quit_flag, visits, loopVars, envVars, histVars, rcVars,
                   lister, lfsVars, fwVars, stage>>

\* dfu-util exits: the pipe reaches end of file
ListerExit ==
    /\ lister = "running"
    /\ lister' = "zombie"
    /\ UNCHANGED <<progVars, pc, quit_flag, visits, loopVars, envVars, histVars, rcVars,
                   pipe_line, lfsVars, fwVars, stage>>

\* fdopen(pipefd[0], "r") fails: return -1, the child is not waited for
GetSerialFdopenFails ==
    /\ pc = "gs_read"
    /\ pc' = "hd_find"
    /\ dfu_ret' = {-1}
    /\ UNCHANGED <<progVars, quit_flag, visits, loopVars, envVars, histVars, procVars,
                   fw_dir, fw_archive, fw, detach_fate, download_fate, stage>>

\* the fgets loop ends: a line with the serial was read (ok = 0), or end of
\* file (ok = -1); then waitpid(pid, NULL, 0)
GetSerialRead ==
    /\ pc = "gs_read"
    /\ pipe_line \/ lister \in {"zombie", "reaped"}
    /\ pc' = "gs_waitpid"
    /\ UNCHANGED <<progVars, quit_flag, visits, loopVars, envVars, histVars, visitVars>>

\* waitpid returns; get_dfu_serial returns ok and handle_device calls
\* perform_dfu when it is 0
GetSerialWaitpid ==
    /\ pc = "gs_waitpid"
    /\ lister \in {"zombie", "reaped"}
    /\ lister' = "reaped"
    /\ pc' = IF pipe_line THEN "pd_detach" ELSE "hd_find"
    /\ dfu_ret' = IF pipe_line THEN dfu_ret ELSE {-1}
    /\ UNCHANGED <<progVars, quit_flag, visits, loopVars, envVars, histVars, rcVars,
                   pipe_line, lfsVars, fw_dir, fw_archive, fw, detach_fate,
                   download_fate, stage>>

\* perform_dfu step 1: run_child(dfu-util -s serial -e)
PerformDfuDetach ==
    /\ pc = "pd_detach"
    /\ rc_site' = "detach"
    /\ pc' = "rc_fork"
    /\ UNCHANGED <<progVars, quit_flag, visits, loopVars, envVars, histVars, child,
                   child_fate, run_child_ret, listVars, lfsVars, fwVars, stage>>

\* sleep(2); step 2: run_child(dfu-util -a 1 -D bin)
PerformDfuDownload ==
    /\ pc = "pd_download"
    /\ rc_site' = "download"
    /\ pc' = "rc_fork"
    /\ UNCHANGED <<progVars, quit_flag, visits, loopVars, envVars, histVars, child,
                   child_fate, run_child_ret, listVars, lfsVars, fwVars, stage>>

\* mkdir(FW_ARCHIVE); rename(bin, archived), and unlink(bin) when it fails
PerformDfuArchive ==
    /\ pc = "pd_archive"
    /\ \E renamed \in BOOLEAN :
        fw_archive' = IF renamed THEN fw_archive \cup {fw} ELSE fw_archive
    /\ fw_dir' = (fw_dir \ {fw}) \cup {"archive"}
    /\ dfu_ret' = {0}
    /\ pc' = "hd_find"
    /\ UNCHANGED <<progVars, quit_flag, visits, loopVars, envVars, histVars, procVars,
                   fw, detach_fate, download_fate, stage>>

(* ---------------- dfu_and_extract.c: handle_device --------------------- *)
\* the update is over: free(fw); its locals and its collected children are gone
UpdateLocalsGone ==
    /\ fw' = NoFw
    /\ dfu_ret' = {}
    /\ detach_fate' = "none"
    /\ download_fate' = "none"
    /\ child' = "none"
    /\ child_fate' = "none"
    /\ rc_site' = "none"
    /\ run_child_ret' = {}
    /\ lister' = IF lister = "reaped" THEN "none" ELSE lister
    /\ pipe_line' = FALSE

\* up to 30 x find_block_dev(udev, 500): a device node, or NULL and return
FindBlockDev ==
    /\ pc = "hd_find"
    /\ \E found \in BOOLEAN :
        pc' = IF found THEN "hd_start_lfs" ELSE "main_after_visit"
    /\ UpdateLocalsGone
    /\ UNCHANGED <<progVars, quit_flag, visits, loopVars, envVars, histVars, lfsVars,
                   fw_dir, fw_archive, stage>>

\* start_lfs: fork() fails (-1) or the helper is forked and execs lfs -f
start_lfs ==
    /\ pc = "hd_start_lfs"
    /\ \/ /\ start_lfs_ret' = -1
          /\ UNCHANGED helper
       \/ /\ start_lfs_ret' = visits
          /\ helper' = "starting"
    /\ pc' = "hd_store_pid"
    /\ UNCHANGED <<progVars, quit_flag, visits, loopVars, envVars, histVars, rcVars,
                   listVars, lfs_pid, fwVars, stage>>

\* lfs_pid = start_lfs(devnode); if (lfs_pid < 0) return; sleep(1)
StoreLfsPid ==
    /\ pc = "hd_store_pid"
    /\ lfs_pid' = start_lfs_ret
    /\ pc' = IF start_lfs_ret < 0 THEN "main_after_visit" ELSE "hd_copy"
    /\ UNCHANGED <<progVars, quit_flag, visits, loopVars, envVars, histVars, rcVars,
                   listVars, helper, start_lfs_ret, fwVars, stage>>

\* the helper mounts the device at the mount point
HelperMounts ==
    /\ helper = "starting"
    /\ helper' = "mounted"
    /\ UNCHANGED <<progVars, pc, quit_flag, visits, loopVars, envVars, histVars, rcVars,
                   listVars, lfs_pid, start_lfs_ret, fwVars, stage>>

\* the helper exits: execv failed (127), the mount failed, or its file
\* system was unmounted
HelperExits ==
    /\ helper \in {"starting", "unmounting"}
    /\ helper' = "zombie"
    /\ UNCHANGED <<progVars, pc, quit_flag, visits, loopVars, envVars, histVars, rcVars,
                   listVars, lfs_pid, start_lfs_ret, fwVars, stage>>

\* what nftw finds under the mount point: the device's files when the
\* helper has mounted it, the empty directory otherwise
TreeAtMountPoint == IF helper = "mounted" THEN dev_files ELSE {}

\* a visit that wipes the source whatever copy_tree returned
AfterCopyTree_AlwaysClear(ret) == "hd_clear"

\* if (copy_tree(MOUNT_POINT, dest) == 0) clear_tree ... else leave the flash
AfterCopyTree(ret) == IF ret = 0 THEN "hd_clear" ELSE "hd_is_mounted"

\* copy_tree: nftw calls cp_cb on every file; it returns 0 when every call
\* returned 0, and stops with -1 at the first file that could not be
\* opened, read or written (or when the walk itself fails)
CopyTree ==
    /\ pc = "hd_copy"
    /\ \/ /\ copied' = TreeAtMountPoint
          /\ copy_ret' = {0}
          /\ pc' = AfterCopyTree(0)
       \/ /\ \E done \in SUBSET TreeAtMountPoint :
                /\ done # TreeAtMountPoint \/ TreeAtMountPoint = {}
                /\ copied' = done
          /\ copy_ret' = {-1}
          /\ pc' = AfterCopyTree(-1)
    /\ UNCHANGED <<prog, dockVars, fnVars, dev_files, removed, quit_flag, visits,
                   loopVars, envVars, histVars, visitVars>>

\* clear_tree: nftw calls rm_cb on every file, depth first, and stops at
\* the first one it could not remove; its result is only reported
ClearTree ==
    /\ pc = "hd_clear"
    /\ \E gone \in SUBSET TreeAtMountPoint :
        /\ removed' = gone
        /\ dev_files' = dev_files \ gone
    /\ copy_ret' = {}
    /\ pc' = "hd_is_mounted"
    /\ UNCHANGED <<prog, dockVars, fnVars, copied, quit_flag, visits,
                   loopVars, envVars, histVars, visitVars>>

\* statfs(mp) == 0 && f_type == FUSE_SUPER_MAGIC
is_fuse_mounted == helper = "mounted"

\* if (is_fuse_mounted(MOUNT_POINT)) umount_mp(MOUNT_POINT);
UmountIfMounted ==
    /\ pc = "hd_is_mounted"
    /\ IF is_fuse_mounted
       THEN /\ rc_site' = "umount_mp"
            /\ pc' = "rc_fork"
       ELSE /\ pc' = "hd_waitpid_lfs"
            /\ UNCHANGED rc_site
    /\ copy_ret' = {}
    /\ UNCHANGED <<prog, dockVars, fnVars, dev_files, copied, removed, quit_flag, visits, loopVars, envVars, histVars, child,
                   child_fate, run_child_ret, listVars, lfsVars, fwVars, stage>>

\* a wait for the helper that returns at once
HelperEnded_NoWait == TRUE

\* the helper has exited: waitpid(lfs_pid, NULL, 0) can return
HelperEnded == helper \in {"zombie", "reaped"}

\* waitpid(lfs_pid, NULL, 0) returns: the helper's exit was collected, here
\* or by the SIGCHLD handler (ECHILD)
WaitpidLfs ==
    /\ pc = "hd_waitpid_lfs"
    /\ HelperEnded
    /\ helper' = IF helper = "zombie" THEN "reaped" ELSE helper
    /\ pc' = "hd_clear_pid"
    /\ UNCHANGED <<progVars, quit_flag, visits, loopVars, envVars, histVars, rcVars,
                   listVars, lfs_pid, start_lfs_ret, fwVars, stage>>

\* lfs_pid = -1; free(devnode); return
ClearLfsPid ==
    /\ pc = "hd_clear_pid"
    /\ lfs_pid' = -1
    /\ pc' = "main_after_visit"
    /\ UNCHANGED <<progVars, quit_flag, visits, loopVars, envVars, histVars, rcVars,
                   listVars, helper, start_lfs_ret, fwVars, stage>>

\* handle_device has returned: its locals and its collected children are gone
VisitLocalsGone ==
    /\ child' = "none"
    /\ child_fate' = "none"
    /\ rc_site' = "none"
    /\ run_child_ret' = {}
    /\ start_lfs_ret' = -1
    /\ helper' = IF helper = "reaped" THEN "none" ELSE helper
    /\ stage' = {}

\* after handle_device returned: record the path, block duplicates
MainAfterVisit ==
    /\ pc = "main_after_visit"
    /\ current_usb_path' = spath
    /\ debouncing' = 1
    /\ remove_seen_at_ms' = 0
    /\ remove_consumed' = FALSE
    /\ add_in_window' = FALSE
    /\ pc' = "main_while"
    /\ VisitLocalsGone
    /\ copied' = {}
    /\ removed' = {}
    /\ UNCHANGED <<prog, dockVars, fnVars, dev_files, copy_ret, quit_flag, visits, spath, envVars,
                   dup_add_ignored, listVars, lfs_pid, fwVars>>

(* --------------------- wearable_dock.c: main ---------------------------- *)
\* SIGINT/SIGTERM: quit_flag = 1; a poll() in progress returns EINTR, and
\* wait_for_device returns -1 because quit_flag is set
handle_sigint ==
    /\ prog = "dock"
    /\ signals_sent < MaxSignals
    /\ pc # "w_exit"
    /\ quit_flag' = 1
    /\ signals_sent' = signals_sent + 1
    /\ pc' = IF pc = "wfd_poll" THEN "w_exit" ELSE pc
    /\ UNCHANGED <<progVars, visits, loopVars, queue, events_sent, now, histVars,
                   visitVars>>

\* while (!quit_flag) { wait_for_device(mon, "add", ...)
DockWhile ==
    /\ pc = "w_while"
    /\ IF quit_flag # 0
       THEN /\ pc' = "w_exit"
            /\ UNCHANGED target_action
       ELSE /\ pc' = "wfd_test"
            /\ target_action' = "add"
    /\ UNCHANGED <<prog, subVars, tries, marker, mounted, mp_kind, quit_flag, visits, loopVars, envVars,
                   histVars, visitVars>>

\* wait_for_device: if (quit_flag) return -1; and main breaks out of its loop
WaitTest ==
    /\ pc = "wfd_test"
    /\ pc' = IF quit_flag # 0 THEN "w_exit" ELSE "wfd_poll_call"
    /\ UNCHANGED <<progVars, quit_flag, visits, loopVars, envVars, histVars, visitVars>>

\* the thread enters poll(fds, 1, -1)
WaitPollCall ==
    /\ pc = "wfd_poll_call"
    /\ pc' = "wfd_poll"
    /\ UNCHANGED <<progVars, quit_flag, visits, loopVars, envVars, histVars, visitVars>>

\* the test on the received event: action, block disk, vendor and product
WantedEvent(e) ==
    e.action = target_action /\ e.match

\* poll returns with an event: it is read; wait_for_device returns 0 when it
\* is the wanted one and goes round its loop otherwise
WaitPollReady ==
    /\ pc = "wfd_poll"
    /\ queue # <<>>
    /\ LET e == Head(queue) IN
        /\ queue' = Tail(queue)
        /\ pc' = CASE ~WantedEvent(e) -> "wfd_test"
                   [] target_action = "add" -> "w_after_add"
                   [] OTHER -> "w_while"
        /\ remove_consumed' =
                (remove_consumed \/ (WantedEvent(e) /\ target_action = "remove"))
        /\ dup_add_ignored' =
                (dup_add_ignored \/
                    (e.action = "add" /\ e.match /\ target_action = "remove"))
    /\ UNCHANGED <<progVars, quit_flag, visits, loopVars, events_sent, signals_sent,
                   now, add_in_window, visitVars>>

\* if (quit_flag) break; handle_device(disk_devnode);
DockAfterAdd ==
    /\ pc = "w_after_add"
    /\ IF quit_flag # 0
       THEN /\ pc' = "w_exit"
            /\ UNCHANGED visits
       ELSE /\ visits < MaxVisits
            /\ visits' = visits + 1
            /\ pc' = "whd_ensure_dir"
    /\ UNCHANGED <<progVars, quit_flag, loopVars, envVars, histVars, visitVars>>

\* handle_device returned: wait_for_device(mon, "remove", NULL, 0)
DockAfterVisit ==
    /\ pc = "w_after_visit"
    /\ target_action' = "remove"
    /\ pc' = "wfd_test"
    /\ remove_consumed' = FALSE
    /\ tries' = 0
    /\ marker' = FALSE
    /\ VisitLocalsGone
    /\ UNCHANGED <<prog, subVars, mounted, mp_kind, quit_flag, visits, loopVars, envVars, dup_add_ignored,
                   add_in_window, listVars, lfs_pid, fwVars>>

(* ------------------ wearable_dock.c: handle_device ---------------------- *)
\* a caller that goes on without unmounting
ensure_unmounted_NotIssued(site, st) ==
    /\ pc' = AfterRunChild(site, 0)
    /\ stage' = st
    /\ UNCHANGED rc_site

\* ensure_unmounted(MOUNT_POINT): run_child(umount), result ignored; st is the
\* caller's progress, to which an unmount issued after the mount is added
ensure_unmounted(site, st) ==
    /\ rc_site' = site
    /\ pc' = "rc_fork"
    /\ stage' = st \cup (IF site = "stale_umount" THEN {} ELSE {"umount"})

\* ensure_dir: mkdir(path, 0755) creates the directory; when it fails with
\* EEXIST whatever is at the path is left as it is
ensure_dir(kind) == IF kind = "absent" THEN "dir" ELSE kind

\* mount_exfat: ensure_dir(MOUNT_POINT) fails (-1, handle_device returns), or
\* returns 0 and ensure_unmounted(MOUNT_POINT) follows
MountEnsureDir ==
    /\ pc = "whd_ensure_dir"
    /\ \/ /\ pc' = "w_after_visit"
          /\ stage' = stage \cup {"mount_failed"}
          /\ UNCHANGED <<rc_site, mp_kind>>
       \/ /\ mp_kind' = ensure_dir(mp_kind)
          /\ ensure_unmounted("stale_umount", stage)
    /\ UNCHANGED <<prog, subVars, target_action, tries, marker, mounted, quit_flag, visits, loopVars, envVars, histVars, child,
                   child_fate, run_child_ret, listVars, lfsVars, fwVars>>

\* mount_exfat: run_child(mount -t exfat dev MOUNT_POINT)
MountExfat ==
    /\ pc = "me_mount"
    /\ rc_site' = "mount"
    /\ pc' = "rc_fork"
    /\ UNCHANGED <<progVars, quit_flag, visits, loopVars, envVars, histVars, child,
                   child_fate, run_child_ret, listVars, lfsVars, fwVars, stage>>

\* mount_exfat returned 0; join_path of the two constants; int tries = 50
StartMarkerWait ==
    /\ pc = "whd_marker_init"
    /\ tries' = MarkerTries
    /\ stage' = stage \cup {"mount_ok"}
    /\ pc' = "whd_marker"
    /\ UNCHANGED <<prog, subVars, target_action, marker, mounted, mp_kind, quit_flag, visits, loopVars,
                   envVars, histVars, procVars, fwVars>>

\* the firmware creates the logs directory on the volume
MarkerAppears ==
    /\ pc = "whd_marker"
    /\ mounted
    /\ ~marker
    /\ marker' = TRUE
    /\ UNCHANGED <<prog, subVars, target_action, tries, mounted, mp_kind, pc, quit_flag, visits, loopVars,
                   envVars, histVars, visitVars>>

\* while (tries-- > 0) { if (stat(src_logs) is a directory) break; usleep(); }
MarkerPoll ==
    /\ pc = "whd_marker"
    /\ tries' = tries - 1
    /\ IF tries > 0
       THEN IF marker
            THEN /\ pc' = "whd_marker_done"
                 /\ stage' = stage \cup {"marker_seen"}
            ELSE UNCHANGED <<pc, stage>>
       ELSE /\ pc' = "whd_marker_done"
            /\ UNCHANGED stage
    /\ UNCHANGED <<prog, subVars, target_action, marker, mounted, mp_kind, quit_flag, visits, loopVars,
                   envVars, histVars, procVars, fwVars>>

\* a test that never sees the time-out
MarkerTimedOut_Never == tries < -1

\* if (tries <= 0)
MarkerTimedOut == tries <= 0

\* timed out: ensure_unmounted and return; else go on to make_session_dir.
\* tries is not read after this test.
MarkerDone ==
    /\ pc = "whd_marker_done"
    /\ IF MarkerTimedOut
       THEN ensure_unmounted("timeout_umount", stage \cup {"timed_out"})
       ELSE /\ pc' = "whd_session"
            /\ UNCHANGED <<rc_site, stage>>
    /\ tries' = 0
    /\ UNCHANGED <<prog, subVars, target_action, marker, mounted, mp_kind, quit_flag, visits, loopVars,
                   envVars, histVars, child, child_fate, run_child_ret, listVars,
                   lfsVars, fwVars>>

\* make_session_dir fails: ensure_unmounted and return; else the session
\* directory exists (join_path of session_dir and "logs" fits)
MakeSessionDir ==
    /\ pc = "whd_session"
    /\ \/ ensure_unmounted("session_umount", stage \cup {"session_failed"})
       \/ /\ pc' = "whd_copy"
          /\ stage' = stage \cup {"session"}
          /\ UNCHANGED rc_site
    /\ UNCHANGED <<progVars, quit_flag, visits, loopVars, envVars, histVars, child,
                   child_fate, run_child_ret, listVars, lfsVars, fwVars>>

\* copy_and_delete_logs, whatever it returns
CopyLogs ==
    /\ pc = "whd_copy"
    /\ \E ok \in BOOLEAN :
        stage' = stage \cup {"copy"} \cup (IF ok THEN {} ELSE {"copy_failed"})
    /\ pc' = "whd_umount"
    /\ UNCHANGED <<progVars, quit_flag, visits, loopVars, envVars, histVars, procVars,
                   fwVars>>

\* ensure_unmounted(MOUNT_POINT) after the copy
UmountAfterCopy ==
    /\ pc = "whd_umount"
    /\ ensure_unmounted("umount", stage)
    /\ UNCHANGED <<progVars, quit_flag, visits, loopVars, envVars, histVars, child,
                   child_fate, run_child_ret, listVars, lfsVars, fwVars>>

\* convert_and_publish(session_dir), whatever it returns
Publish ==
    /\ pc = "whd_publish"
    /\ \E ok \in BOOLEAN :
        stage' = stage \cup {"publish"} \cup (IF ok THEN {} ELSE {"publish_failed"})
    /\ pc' = "whd_archive"
    /\ UNCHANGED <<progVars, quit_flag, visits, loopVars, envVars, histVars, procVars,
                   fwVars>>

\* archive_session(session_dir), whatever it returns; handle_device returns
Archive ==
    /\ pc = "whd_archive"
    /\ \E ok \in BOOLEAN :
        stage' = stage \cup {"archive"} \cup (IF ok THEN {} ELSE {"archive_failed"})
    /\ pc' = "w_after_visit"
    /\ UNCHANGED <<progVars, quit_flag, visits, loopVars, envVars, histVars, procVars,
                   fwVars>>

Next ==
    \/ EnvEvent
    \/ MainWhile
    \/ MainDebounce
    \/ MainPollReady
    \/ MainPollTimeout
    \/ MainDispatch
    \/ HandleDeviceStart
    \/ GetSerialFork
    \/ ListerExec
    \/ ListerExecFails
    \/ ListerPrints
    \/ ListerExit
    \/ GetSerialFdopenFails
    \/ GetSerialRead
    \/ GetSerialWaitpid
    \/ PerformDfuDetach
    \/ PerformDfuDownload
    \/ PerformDfuArchive
    \/ RunChildFork
    \/ RunChildEnterWait
    \/ ChildExit
    \/ RunChildWaitpid
    \/ reap
    \/ forward_quit
    \/ FindBlockDev
    \/ start_lfs
    \/ StoreLfsPid
    \/ HelperMounts
    \/ HelperExits
    \/ CopyTree
    \/ ClearTree
    \/ UmountIfMounted
    \/ WaitpidLfs
    \/ ClearLfsPid
    \/ handle_sigint
    \/ DockWhile
    \/ WaitTest
    \/ WaitPollCall
    \/ WaitPollReady
    \/ DockAfterAdd
    \/ DockAfterVisit
    \/ MountEnsureDir
    \/ MountExfat
    \/ StartMarkerWait
    \/ MarkerAppears
    \/ MarkerPoll
    \/ MarkerDone
    \/ MakeSessionDir
    \/ CopyLogs
    \/ UmountAfterCopy
    \/ Publish
    \/ Archive
    \/ MainAfterVisit

Spec == Init /\ [][Next]_vars
(* --------------------- the dock program on its own ---------------------- *)
\* the steps of wearable_dock.c's thread
DockThread ==
    \/ DockWhile
    \/ WaitTest
    \/ WaitPollCall
    \/ WaitPollReady
    \/ DockAfterAdd
    \/ DockAfterVisit
    \/ MountEnsureDir
    \/ MountExfat
    \/ StartMarkerWait
    \/ MarkerPoll
    \/ MarkerDone
    \/ MakeSessionDir
    \/ CopyLogs
    \/ UmountAfterCopy
    \/ Publish
    \/ Archive
    \/ RunChildFork
    \/ RunChildEnterWait
    \/ RunChildWaitpid

DockNext ==
    \/ DockThread
    \/ ChildExit
    \/ MarkerAppears
    \/ EnvEvent
    \/ handle_sigint

\* wearable_dock.c alone. The thread runs whenever it is not blocked and
\* mount/umount end; bus events and signals may never come.
DockFair ==
    /\ InitDock
    /\ [][DockNext]_vars
    /\ WF_vars(DockThread)
    /\ WF_vars(ChildExit)

(* ------------- dfu_and_extract.c: the main loop after a visit ----------- *)
\* handle_device has just returned from the first visit, started by one add
AfterFirstVisit ==
    /\ prog = "dfu"
    /\ pc = "main_after_visit"
    /\ fw_dir \in FwDirs
    /\ InitEnv!1 /\ InitEnv!2 /\ InitEnv!4 /\ InitEnv!5
    /\ events_sent = 1
    /\ InitLoop!1 /\ InitLoop!2 /\ InitLoop!3
    /\ spath \in Paths
    /\ visits = 1
    /\ InitLoop!6 /\ InitLoop!7 /\ InitLoop!8
    /\ InitVisit
    /\ InitSub
    /\ NoFiles
    /\ mp_kind = "dir"

\* the steps of the main loop outside handle_device
MainLoopStep ==
    \/ MainWhile
    \/ MainDebounce
    \/ MainPollReady
    \/ MainPollTimeout
    \/ MainDispatch
    \/ MainAfterVisit

DebounceNext ==
    \/ MainLoopStep
    \/ EnvEvent
    \/ forward_quit

\* The main loop from the return of a visit to the start of the next one.
\* The thread runs whenever it is not blocked (poll returns after 1 s at the
\* latest); bus events and signals may never come.
DebounceFair ==
    /\ AfterFirstVisit
    /\ [][DebounceNext]_vars
    /\ WF_vars(MainLoopStep)

(* ------------------ dfu_and_extract.c: one visit ------------------------ *)
\* the main loop has just accepted the first add: handle_device is called
FirstVisitStarts ==
    /\ prog = "dfu"
    /\ pc = "hd_next_firmware"
    /\ fw_dir \in FwDirs
    /\ InitEnv!1 /\ InitEnv!2 /\ InitEnv!4 /\ InitEnv!5
    /\ events_sent = 1
    /\ InitLoop!1 /\ InitLoop!2 /\ InitLoop!3
    /\ spath \in Paths
    /\ visits = 1
    /\ InitLoop!6 /\ InitLoop!7 /\ InitLoop!8
    /\ InitVisit
    /\ InitSub
    /\ NoFiles
    /\ mp_kind = "dir"

\* the steps of the thread inside handle_device
VisitStep ==
    \/ HandleDeviceStart
    \/ GetSerialFork
    \/ GetSerialFdopenFails
    \/ GetSerialRead
    \/ GetSerialWaitpid
    \/ PerformDfuDetach
    \/ PerformDfuDownload
    \/ PerformDfuArchive
    \/ FindBlockDev
    \/ start_lfs
    \/ StoreLfsPid
    \/ CopyTree
    \/ ClearTree
    \/ UmountIfMounted
    \/ WaitpidLfs
    \/ ClearLfsPid
    \/ RunChildFork
    \/ RunChildEnterWait
    \/ RunChildWaitpid

\* the steps of dfu-util -l
ListerStep == ListerExec \/ ListerExecFails \/ ListerPrints \/ ListerExit

\* the steps of the mount helper
HelperStep == HelperMounts \/ HelperExits

VisitNext ==
    \/ VisitStep
    \/ ChildExit
    \/ ListerStep
    \/ HelperStep
    \/ reap
    \/ forward_quit

\* One visit, from the call of handle_device to its return. The thread runs
\* whenever it is not blocked, the external programs end, the mount helper
\* mounts or gives up, and a pending SIGCHLD is delivered; SIGINT/SIGTERM may
\* never come.
VisitFair ==
    /\ FirstVisitStarts
    /\ [][VisitNext]_vars
    /\ WF_vars(VisitStep)
    /\ WF_vars(ChildExit)
    /\ WF_vars(ListerStep)
    /\ WF_vars(HelperStep)
    /\ WF_vars(reap)

(* ------------------------------ properties ------------------------------ *)
\* the thread is inside handle_device
Visiting ==
    pc \notin {"main_while", "main_debounce", "main_poll", "main_dispatch",
               "main_after_visit", "main_exit", "w_while", "wfd_test",
               "wfd_poll_call", "wfd_poll", "w_after_add", "w_after_visit", "w_exit"}

\* C1: handle_device is started only from the main loop, never while an
\* invocation is running; after the first invocation a new one starts only
\* once a matching remove has been consumed since the last one returned; a
\* matching add consumed in between starts no visit.
C1_OneVisitPerConnection ==
    [][/\ visits' # visits
            => /\ ~Visiting
               /\ Visiting'
               /\ visits = 0 \/ remove_consumed
       /\ (dup_add_ignored' /\ ~dup_add_ignored) => visits' = visits]_vars

\* a duplicate add was ignored, a remove consumed, and the second visit runs
C1_Witness ==
    visits = 2 /\ dup_add_ignored /\ remove_consumed /\ Visiting

\* C2: dfu_and_extract.c leaves Debouncing for Idle only when a remove of the
\* recorded path has been consumed and no matching add was read inside the
\* 500 ms window after it.
C2_QuietWindow ==
    [][(debouncing # 0 /\ debouncing' = 0) => (remove_consumed /\ ~add_in_window)]_vars

\* C3: in dfu_and_extract.c, once a remove of the recorded path has been
\* consumed in Debouncing, the main loop eventually returns to Idle
\* (debouncing = 0, path and timestamp cleared), unless it is told to quit.
C3_DebounceEnds ==
    (debouncing # 0 /\ remove_seen_at_ms > 0)
        ~> ((debouncing = 0 /\ current_usb_path = NoPath /\ remove_seen_at_ms = 0)
                \/ pc = "main_exit")

\* the remove was consumed, the window passed and the loop is Idle again
C3_Witness ==
    /\ remove_consumed
    /\ debouncing = 0
    /\ current_usb_path = NoPath
    /\ remove_seen_at_ms = 0
    /\ pc = "main_poll"
    /\ quit_flag = 0

C5_RunChildContract ==
    run_child_ret # {} => (run_child_ret = {0} <=> child_fate = "exit0")

\* C6: when perform_dfu returns after detach and download both exited with
\* status 0, the image is no longer in the watched directory.
C6_FlashedImageGone ==
    (pc = "hd_find" /\ detach_fate = "exit0" /\ download_fate = "exit0")
        => fw \notin fw_dir

\* the update of this visit failed: no serial, or a step exited non-zero
UpdateFailed ==
    /\ fw # NoFw
    /\ \/ dfu_ret = {-1} /\ detach_fate = "none"
       \/ detach_fate \in {"exit1", "exit127"}
       \/ download_fate \in {"exit1", "exit127"}

\* C7: when the update failed, the visit goes on to locate the block device
\* with the image still in the watched directory.
C7_FailedImageKept ==
    (pc = "hd_find" /\ UpdateFailed) => fw \in fw_dir

\* C8: in dfu_and_extract.c, the wait for the mount helper at the end of a
\* visit ends: once the thread waits for the helper, handle_device returns.
C8_VisitTerminates ==
    (pc = "hd_waitpid_lfs") ~> (pc = "main_after_visit")

\* C9: in wearable_dock.c, once quit_flag is set while main waits for an
\* event, the main loop exits.
C9_SignalExits ==
    (quit_flag # 0 /\ pc \in {"wfd_test", "wfd_poll_call", "wfd_poll"}) ~> (pc = "w_exit")

\* the later stages of a dock visit
SessionStages == {"session", "copy", "publish", "archive"}

\* C10: in a dock visit where mount succeeded and the marker directory was
\* never observed, no session directory is made, nothing is copied,
\* published or archived, and the visit returns after an unmount.
C10_TimeoutAborts ==
    ("mount_ok" \in stage /\ "marker_seen" \notin stage)
        => /\ stage \cap SessionStages = {}
           /\ pc = "w_after_visit" => "umount" \in stage

\* the marker wait timed out and handle_device has returned
C10_Witness ==
    /\ pc = "w_after_visit"
    /\ "mount_ok" \in stage
    /\ "timed_out" \in stage
    /\ "marker_seen" \notin stage

(* ------------- the children of both programs, one visit each ------------ *)
\* One visit of dfu_and_extract.c, or wearable_dock.c from its start. The
\* threads run whenever they are not blocked, the external programs end, the
\* mount helper mounts or gives up, and a pending SIGCHLD is delivered.
ChildrenNext == VisitNext \/ DockNext

ChildrenFair ==
    /\ FirstVisitStarts \/ InitDock
    /\ [][ChildrenNext]_vars
    /\ WF_vars(VisitStep)
    /\ WF_vars(DockThread)
    /\ WF_vars(ChildExit)
    /\ WF_vars(ListerStep)
    /\ WF_vars(HelperStep)
    /\ WF_vars(reap)

\* C13: in dfu_and_extract.c, outside a visit and when a visit is about to
\* start the mount helper, no helper is alive or unreaped and lfs_pid holds
\* no helper's id.
C13_NoHelperLeftBehind ==
    (~Visiting \/ pc = "hd_start_lfs")
        => (helper \in {"none", "reaped"} /\ lfs_pid = -1)

\* a visit that started a helper has returned
C13_Witness ==
    /\ pc = "main_after_visit"
    /\ helper = "reaped"
    /\ lfs_pid = -1

\* C14: a child of run_child, get_dfu_serial or start_lfs that has exited is
\* eventually reaped.
C14_ExitedChildrenReaped ==
    /\ (child = "zombie") ~> (child # "zombie")
    /\ (lister = "zombie") ~> (lister # "zombie")
    /\ (helper = "zombie") ~> (helper # "zombie")

\* get_dfu_serial returned early and the handler collected its child
C14_Witness ==
    /\ lister = "reaped"
    /\ pc \notin {"gs_read", "gs_waitpid"}
    /\ dfu_ret = {-1}
    /\ ~pipe_line

\* C20: in wearable_dock.c, the marker wait reports a time-out only if none
\* of its polls observed the logs directory.
C20_TimeoutOnlyIfNeverSeen ==
    "timed_out" \in stage => "marker_seen" \notin stage

(* --------- join_path (wearable_dock.c), path_join (bin2json_mqtt.c) ----- *)
\* a function is modelled in a process that has no device, event or child
HostIdle == fw_dir = {} /\ InitEnv /\ InitLoop /\ InitVisit /\ NoFiles /\ mp_kind = "dir"

\* the string of n characters c
Rep(c, n) == [i \in 1..n |-> c]

Min(x, y) == IF x < y THEN x ELSE y

\* a test that lets the exactly-full case through
TooLong_OffByOne(n, cap) == n > cap

\* (size_t)n >= out_sz ; la + 1 + lb >= PATH_MAX
TooLong(n, cap) == n >= cap

exceptJoin == <<hostVars, copyVars, pubVars, decVars, archVars>>

\* "%s/%s"
Joined(a, b) == a \o <<"/">> \o b

\* the programs are modelled with a call about to be made on any arguments
JoinInit ==
    /\ pc = "jp_call"
    /\ \/ prog = "dock" /\ jp_cap \in 1..PathMax
       \/ prog = "bin2json" /\ jp_cap = PathMax
    /\ jp_a \in {Rep("a", n) : n \in 0..MaxLen}
    /\ jp_b \in {Rep("b", n) : n \in 0..MaxLen}
    /\ jp_out = <<>>
    /\ jp_ret = {}
    /\ jp_used = <<>>
    /\ HostIdle
    /\ InitCopy
    /\ InitPub
    /\ InitDec
    /\ InitArch

\* int n = snprintf(out, out_sz, "%s/%s", a, b): out holds the first
\* out_sz - 1 characters; -1 when n >= out_sz
join_path ==
    /\ pc = "jp_call"
    /\ prog = "dock"
    /\ LET n == Len(Joined(jp_a, jp_b)) IN
        /\ jp_out' = SubSeq(Joined(jp_a, jp_b), 1, Min(n, jp_cap - 1))
        /\ jp_ret' = IF TooLong(n, jp_cap) THEN {-1} ELSE {0}
    /\ pc' = "jp_returned"
    /\ UNCHANGED <<exceptJoin, jp_a, jp_b, jp_cap, jp_used>>

\* if (la + 1 + lb >= PATH_MAX) return -1; else the three copies and the NUL
path_join ==
    /\ pc = "jp_call"
    /\ prog = "bin2json"
    /\ IF TooLong(Len(jp_a) + 1 + Len(jp_b), jp_cap)
       THEN /\ jp_ret' = {-1}
            /\ UNCHANGED jp_out
       ELSE /\ jp_ret' = {0}
            /\ jp_out' = Joined(jp_a, jp_b)
    /\ pc' = "jp_returned"
    /\ UNCHANGED <<exceptJoin, jp_a, jp_b, jp_cap, jp_used>>

\* every caller: if (join_path(...) != 0) { report; return or continue; }
JoinCaller ==
    /\ pc = "jp_returned"
    /\ jp_used' = IF jp_ret = {0} THEN jp_out ELSE jp_used
    /\ pc' = "jp_done"
    /\ UNCHANGED <<exceptJoin, jp_a, jp_b, jp_cap, jp_out, jp_ret>>

JoinNext == join_path \/ path_join \/ JoinCaller

JoinSpec == JoinInit /\ [][JoinNext]_vars

\* C19: join_path and path_join return an error exactly when
\* len(a) + 1 + len(b) >= capacity; otherwise out is a, '/', b; and the
\* caller uses the path only when it is that complete path.
C19_JoinRejectsOverlong ==
    /\ jp_ret # {}
        => /\ jp_ret = {-1} <=> Len(jp_a) + 1 + Len(jp_b) >= jp_cap
           /\ jp_ret = {0} => jp_out = Joined(jp_a, jp_b)
    /\ jp_used # <<>> => jp_used = Joined(jp_a, jp_b)

\* a call whose result would need exactly the capacity was refused, with
\* the truncated text in out, and the caller did not use it
C19_Witness ==
    /\ pc = "jp_done"
    /\ Len(jp_a) + 1 + Len(jp_b) = jp_cap
    /\ jp_ret = {-1}
    /\ jp_out # <<>>
    /\ jp_used = <<>>

(* ------------- copy_and_delete_logs, copy_file (wearable_dock.c) -------- *)
exceptCopy == <<hostVars, joinVars, pubVars, decVars, archVars>>

\* src_logs and dest_logs, scaled to PathMax
SrcLogs == <<"m">>
DestLogs == <<"s">>

\* the size of a file of the directory, in buffers
FileChunks(name) ==
    IF name = <<"a", ".", "B", "I", "N">> THEN MaxChunks
    ELSE IF name = <<"b", ".", "b", "i", "n">> THEN 0
    ELSE 1

\* strrchr(d_name, '.'): the index of the last dot, 0 when there is none
LastDot(name) ==
    IF \E i \in 1..Len(name) : name[i] = "."
    THEN CHOOSE i \in 1..Len(name) :
            /\ name[i] = "."
            /\ \A j \in (i + 1)..Len(name) : name[j] # "."
    ELSE 0

\* the tests of the loop: not a dot-name, and the extension is .BIN or .bin
IsLog(name) ==
    /\ name[1] # "."
    /\ LastDot(name) # 0
    /\ SubSeq(name, LastDot(name), Len(name))
          \in { <<".", "B", "I", "N">>, <<".", "b", "i", "n">> }

\* the two join_path calls of the loop
PathsFit(name) ==
    /\ ~TooLong(Len(Joined(SrcLogs, name)), PathMax)
    /\ ~TooLong(Len(Joined(DestLogs, name)), PathMax)

\* a loop that gives up at the first file it could not copy
AfterFailure_Stops == "cl_closedir"

\* continue; and the fall through the if of copy_file's result
AfterFailure == "cl_readdir"

\* a source deleted whatever copy_file returned
MayUnlink_Always(rc) == TRUE

\* if (copy_file(src_path, dst_path) == 0)
MayUnlink(rc) == rc = 0

\* a call on a logs directory of any content, into a session directory
\* that has none of its files
CopyInit ==
    /\ prog = "dock"
    /\ pc = "cl_open"
    /\ cp_dir0 \in SUBSET DirNames
    /\ cp_card = cp_dir0
    /\ cp_session = [n \in DirNames |-> -1]
    /\ cp_left = {}
    /\ cp_cur = <<>>
    /\ cp_in = 0
    /\ cp_out = 0
    /\ cp_in_err = FALSE
    /\ cp_rc = 0
    /\ cp_visited = <<>>
    /\ cp_ok = {}
    /\ cl_ret = {}
    /\ HostIdle
    /\ InitJoin
    /\ InitPub
    /\ InitDec
    /\ InitArch

\* ensure_dir(dest_logs) and opendir(src_logs); either can fail
CopyOpen ==
    /\ pc = "cl_open"
    /\ \/ /\ pc' = "cl_readdir"
          /\ cp_left' = cp_card
          /\ UNCHANGED cl_ret
       \/ /\ pc' = "cl_done"
          /\ cl_ret' = {-1}
          /\ UNCHANGED cp_left
    /\ UNCHANGED <<exceptCopy, cp_dir0, cp_card, cp_session, cp_cur, cp_in,
                   cp_out, cp_in_err, cp_rc, cp_visited, cp_ok>>

\* while ((de = readdir(dir)) != NULL) with the three tests that skip a name
CopyReaddir ==
    /\ pc = "cl_readdir"
    /\ IF cp_left = {}
       THEN /\ pc' = "cl_closedir"
            /\ UNCHANGED <<cp_left, cp_cur, cp_visited>>
       ELSE \E de \in cp_left :
            /\ cp_left' = cp_left \ {de}
            /\ IF ~IsLog(de)
               THEN /\ pc' = "cl_readdir"
                    /\ UNCHANGED <<cp_cur, cp_visited>>
               ELSE /\ cp_visited' = Append(cp_visited, de)
                    /\ IF PathsFit(de)
                       THEN /\ pc' = "cf_open"
                            /\ cp_cur' = de
                       ELSE /\ pc' = AfterFailure
                            /\ UNCHANGED cp_cur
    /\ UNCHANGED <<exceptCopy, cp_dir0, cp_card, cp_session, cp_in, cp_out,
                   cp_in_err, cp_rc, cp_ok, cl_ret>>

\* copy_file: fopen(src, "rb"), fopen(dst, "wb"); "wb" creates or empties dst
CopyFileOpen ==
    /\ pc = "cf_open"
    /\ \/ /\ cp_rc' = -1
          /\ pc' = "cl_after_copy"
          /\ UNCHANGED cp_session
       \/ /\ cp_rc' = 0
          /\ cp_session' = [cp_session EXCEPT ![cp_cur] = 0]
          /\ pc' = "cf_fread"
    /\ UNCHANGED <<exceptCopy, cp_dir0, cp_card, cp_left, cp_cur, cp_in, cp_out,
                   cp_in_err, cp_visited, cp_ok, cl_ret>>

\* n = fread(buf, 1, sizeof(buf), in): a buffer, the end of the file, or an error
CopyFileRead ==
    /\ pc = "cf_fread"
    /\ \/ /\ cp_in < FileChunks(cp_cur)
          /\ cp_in' = cp_in + 1
          /\ pc' = "cf_fwrite"
          /\ UNCHANGED cp_in_err
       \/ /\ cp_in = FileChunks(cp_cur)
          /\ pc' = "cf_close"
          /\ UNCHANGED <<cp_in, cp_in_err>>
       \/ /\ cp_in_err' = TRUE
          /\ pc' = "cf_close"
          /\ UNCHANGED cp_in
    /\ UNCHANGED <<exceptCopy, cp_dir0, cp_card, cp_session, cp_left, cp_cur,
                   cp_out, cp_rc, cp_visited, cp_ok, cl_ret>>

\* if (fwrite(buf, 1, n, out) != n) { rc = -1; break; }
CopyFileWrite ==
    /\ pc = "cf_fwrite"
    /\ \/ /\ cp_out' = cp_out + 1
          /\ pc' = "cf_fread"
          /\ UNCHANGED cp_rc
       \/ /\ cp_rc' = -1
          /\ pc' = "cf_close"
          /\ UNCHANGED cp_out
    /\ UNCHANGED <<exceptCopy, cp_dir0, cp_card, cp_session, cp_left, cp_cur,
                   cp_in, cp_in_err, cp_visited, cp_ok, cl_ret>>

\* if (ferror(in)) rc = -1; fclose(in); if (fclose(out) != 0) rc = -1;
\* return rc.  A successful fclose has written all that fwrite accepted; a
\* failed one may have written any part of it.
CopyFileClose ==
    /\ pc = "cf_close"
    /\ \/ /\ cp_session' = [cp_session EXCEPT ![cp_cur] = cp_out]
          /\ cp_rc' = IF cp_in_err THEN -1 ELSE cp_rc
       \/ /\ \E w \in 0..cp_out : cp_session' = [cp_session EXCEPT ![cp_cur] = w]
          /\ cp_rc' = -1
    /\ pc' = "cl_after_copy"
    /\ UNCHANGED <<exceptCopy, cp_dir0, cp_card, cp_left, cp_cur, cp_in, cp_out,
                   cp_in_err, cp_visited, cp_ok, cl_ret>>

\* if (copy_file(...) == 0) { ++copied; unlink(src_path), which can fail }
CopyAfter ==
    /\ pc = "cl_after_copy"
    /\ cp_ok' = IF cp_rc = 0 THEN cp_ok \cup {cp_cur} ELSE cp_ok
    /\ IF MayUnlink(cp_rc)
       THEN /\ \/ cp_card' = cp_card \ {cp_cur}
               \/ UNCHANGED cp_card
            /\ pc' = "cl_readdir"
       ELSE /\ UNCHANGED cp_card
            /\ pc' = AfterFailure
    /\ cp_cur' = <<>>
    /\ cp_in' = 0
    /\ cp_out' = 0
    /\ cp_in_err' = FALSE
    /\ cp_rc' = 0
    /\ UNCHANGED <<exceptCopy, cp_dir0, cp_session, cp_left, cp_visited, cl_ret>>

\* closedir(dir); the report; return 0
CopyReturn ==
    /\ pc = "cl_closedir"
    /\ pc' = "cl_done"
    /\ cl_ret' = {0}
    /\ cp_left' = {}
    /\ UNCHANGED <<exceptCopy, cp_dir0, cp_card, cp_session, cp_cur, cp_in,
                   cp_out, cp_in_err, cp_rc, cp_visited, cp_ok>>

CopyNext ==
    \/ CopyOpen
    \/ CopyReaddir
    \/ CopyFileOpen
    \/ CopyFileRead
    \/ CopyFileWrite
    \/ CopyFileClose
    \/ CopyAfter
    \/ CopyReturn

CopySpec == CopyInit /\ [][CopyNext]_vars

\* the names the loop has taken up, as a set
Visited == {cp_visited[i] : i \in 1..Len(cp_visited)}

\* the whole content of the file is in the session directory
InSession(name) == cp_session[name] = FileChunks(name)

\* C11: a source file is gone from the device only if copy_file returned 0
\* for it, and at every point each log file of the directory is on the
\* device or complete in the session directory.
C11_NoLogLost ==
    /\ (cp_dir0 \ cp_card) \subseteq cp_ok
    /\ \A name \in cp_dir0 : IsLog(name) => (name \in cp_card \/ InSession(name))

\* the largest file was copied whole and deleted from the device
C11_Witness ==
    /\ <<"a", ".", "B", "I", "N">> \in cp_dir0 \ cp_card
    /\ cp_session[<<"a", ".", "B", "I", "N">>] = MaxChunks

\* C12: when the run has gone through the directory, every matching file
\* of it was taken up, whatever failed on the files before it, the files
\* that were not copied are still on the device, and the run returns 0.
C12_FailureDoesNotStopRun ==
    cl_ret = {0} =>
        /\ Visited = {name \in cp_dir0 : IsLog(name)}
        /\ (Visited \ cp_ok) \subseteq cp_card

\* a run in which a file failed (copy or over-long path) and a file taken
\* up after it was copied and deleted
C12_Witness ==
    /\ cl_ret = {0}
    /\ \E i \in 1..Len(cp_visited) : \E j \in (i + 1)..Len(cp_visited) :
        /\ cp_visited[i] \notin cp_ok
        /\ cp_visited[i] \in cp_card
        /\ cp_visited[j] \in cp_ok
        /\ cp_visited[j] \notin cp_card
    /\ <<"c", "c", ".", "B", "I", "N">> \in Visited

(* ---- convert_and_publish (wearable_dock.c), main (bin2json_mqtt.c) ----- *)
exceptPub == <<hostVars, joinVars, copyVars, decVars, archVars>>

\* #define RECORD_SIZE (4 + 4 + 6 * 2) ; #define RECORD_SIZE (4 + 6*2)
RECORD_SIZE(p) == IF p = "bin2json" THEN 4 + 6 * 2 ELSE 4 + 4 + 6 * 2

\* a loop that takes whatever fread delivered for a record
FullRecord_AnyBytes(n, rs) == n > 0

\* fread(buf, 1, RECORD_SIZE, fp) == RECORD_SIZE
FullRecord(n, rs) == n = rs

\* wearable_dock.c publishes every telemetry file of the session,
\* bin2json_mqtt.c the one file of the latest folder
PubInit ==
    /\ pc = "pb_setup"
    /\ \/ /\ prog = "dock"
          /\ \E k \in 0..MaxFiles : pb_files \in [1..k -> 0..MaxFileLen]
       \/ /\ prog = "bin2json"
          /\ pb_files \in [1..1 -> 0..MaxFileLen]
    /\ pb_cur = 0
    /\ pb_pos = 0
    /\ pb_emitted = <<>>
    /\ pb_log = <<>>
    /\ mq_calls = <<>>
    /\ pb_ret = {}
    /\ HostIdle
    /\ InitJoin
    /\ InitCopy
    /\ InitDec
    /\ InitArch

\* before the client exists: join_path and opendir in wearable_dock.c,
\* the two path_join and fopen in bin2json_mqtt.c; a failure ends the cycle
PubSetup ==
    /\ pc = "pb_setup"
    /\ \/ /\ pc' = "pb_connect"
          /\ pb_cur' = IF prog = "bin2json" THEN 1 ELSE 0
          /\ UNCHANGED pb_ret
       \/ /\ pc' = "pb_done"
          /\ pb_ret' = IF prog = "bin2json" THEN {1} ELSE {-1}
          /\ UNCHANGED pb_cur
    /\ UNCHANGED <<exceptPub, pb_files, pb_pos, pb_emitted, pb_log, mq_calls>>

\* mosquitto_new, mosquitto_connect_async, mosquitto_loop_start.  When
\* connect fails wearable_dock.c destroys the client and returns -1,
\* bin2json_mqtt.c returns 1.
PubConnect ==
    /\ pc = "pb_connect"
    /\ \/ /\ pc' = "pb_done"
          /\ pb_ret' = IF prog = "bin2json" THEN {1} ELSE {-1}
          /\ pb_cur' = 0
          /\ UNCHANGED mq_calls
       \/ /\ pc' = "pb_done"
          /\ pb_ret' = IF prog = "bin2json" THEN {1} ELSE {-1}
          /\ pb_cur' = 0
          /\ mq_calls' = mq_calls \o
                (IF prog = "bin2json" THEN <<"connect_failed">>
                                      ELSE <<"connect_failed", "destroy">>)
       \/ /\ pc' = IF prog = "bin2json" THEN "pb_fread" ELSE "pb_readdir"
          /\ mq_calls' = mq_calls \o <<"connect", "loop_start">>
          /\ UNCHANGED <<pb_ret, pb_cur>>
    /\ UNCHANGED <<exceptPub, pb_files, pb_pos, pb_emitted, pb_log>>

\* wearable_dock.c: the next telemetry file of readdir, and its fopen,
\* which can fail; no entry left ends the loop
PubReaddir ==
    /\ pc = "pb_readdir"
    /\ IF Len(pb_log) + 1 > Len(pb_files)
       THEN /\ pc' = "pb_stop"
            /\ UNCHANGED <<pb_cur, pb_log>>
       ELSE \/ /\ pb_cur' = Len(pb_log) + 1
               /\ pc' = "pb_fread"
               /\ UNCHANGED pb_log
            \/ /\ pb_log' = Append(pb_log, [len |-> pb_files[Len(pb_log) + 1],
                                            emitted |-> <<>>, opened |-> FALSE,
                                            err |-> FALSE, reported |-> FALSE])
               /\ pc' = "pb_readdir"
               /\ UNCHANGED pb_cur
    /\ UNCHANGED <<exceptPub, pb_files, pb_pos, pb_emitted, mq_calls, pb_ret>>

\* what fread can return at the position: the RECORD_SIZE bytes or all
\* that is left before the end of the file, or nothing with the error
\* indicator set
Freads ==
    { [n |-> Min(RECORD_SIZE(prog), pb_files[pb_cur] - pb_pos), err |-> FALSE],
      [n |-> 0, err |-> TRUE] }

\* one turn of while (fread(...) == RECORD_SIZE): decode, format, publish;
\* or the end of the loop: if (ferror(fp)) report (wearable_dock.c only),
\* fclose(fp)
PubRead ==
    /\ pc = "pb_fread"
    /\ \E r \in Freads :
        IF FullRecord(r.n, RECORD_SIZE(prog))
        THEN /\ pb_emitted' = Append(pb_emitted, pb_pos)
             /\ pb_pos' = pb_pos + r.n
             /\ mq_calls' = Append(mq_calls, "publish")
             /\ UNCHANGED <<pc, pb_cur, pb_log>>
        ELSE /\ pb_log' = Append(pb_log, [len |-> pb_files[pb_cur],
                                          emitted |-> pb_emitted, opened |-> TRUE,
                                          err |-> r.err,
                                          reported |-> r.err /\ prog = "dock"])
             /\ pb_emitted' = <<>>
             /\ pb_pos' = 0
             /\ pb_cur' = 0
             /\ pc' = IF prog = "bin2json" THEN "pb_stop" ELSE "pb_readdir"
             /\ UNCHANGED mq_calls
    /\ UNCHANGED <<exceptPub, pb_files, pb_ret>>

\* wearable_dock.c: closedir, mosquitto_loop_stop, mosquitto_disconnect,
\* mosquitto_destroy, return 0
PubStopDock ==
    /\ pc = "pb_stop"
    /\ prog = "dock"
    /\ mq_calls' = mq_calls \o <<"loop_stop", "disconnect", "destroy">>
    /\ pb_ret' = {0}
    /\ pc' = "pb_done"
    /\ UNCHANGED <<exceptPub, pb_files, pb_cur, pb_pos, pb_emitted, pb_log>>

\* bin2json_mqtt.c: mosquitto_loop_stop, mosquitto_destroy, fclose
PubStopBin2json ==
    /\ pc = "pb_stop"
    /\ prog = "bin2json"
    /\ mq_calls' = mq_calls \o <<"loop_stop", "destroy">>
    /\ pb_ret' = {0}
    /\ pc' = "pb_done"
    /\ UNCHANGED <<exceptPub, pb_files, pb_cur, pb_pos, pb_emitted, pb_log>>

PubNext ==
    \/ PubSetup
    \/ PubConnect
    \/ PubReaddir
    \/ PubRead
    \/ PubStopDock
    \/ PubStopBin2json

PublishSpec == PubInit /\ [][PubNext]_vars

\* the offsets of the whole records of a file of len bytes, in file order
WholeRecords(len, rs) == [k \in 1..(len \div rs) |-> (k - 1) * rs]

\* C15: a telemetry file of N bytes that was read to its end yields the
\* records at offsets 0, RECORD_SIZE, ... , floor(N / RECORD_SIZE) of them,
\* in that order, and a shorter tail yields no record and no error report.
C15_WholeRecordsOnly ==
    \A i \in 1..Len(pb_log) :
        (pb_log[i].opened /\ ~pb_log[i].err) =>
            /\ pb_log[i].emitted = WholeRecords(pb_log[i].len, RECORD_SIZE(prog))
            /\ ~pb_log[i].reported

\* a file of two whole records and a tail was read to its end
C15_Witness ==
    \E i \in 1..Len(pb_log) :
        /\ pb_log[i].opened
        /\ ~pb_log[i].err
        /\ pb_log[i].len > 2 * RECORD_SIZE(prog)
        /\ Len(pb_log[i].emitted) = 2

\* C17: a cycle that connected ends with loop stop followed by
\* disconnect, every publish lies between loop start and loop stop, there
\* is one connect, and after a failed connect nothing is published.
C17_ConnectPublishDisconnect ==
    pc = "pb_done" =>
        /\ Len(SelectSeq(mq_calls, LAMBDA c : c \in {"connect", "connect_failed"})) <= 1
        /\ \A i \in 1..Len(mq_calls) : mq_calls[i] = "publish" =>
            /\ \E j \in 1..(i - 1) : mq_calls[j] = "loop_start"
            /\ \E j \in (i + 1)..Len(mq_calls) : mq_calls[j] = "loop_stop"
            /\ \A j \in 1..Len(mq_calls) : mq_calls[j] # "connect_failed"
        /\ pb_ret = {0} =>
            \E i \in 1..(Len(mq_calls) - 1) :
                /\ mq_calls[i] = "loop_stop"
                /\ mq_calls[i + 1] = "disconnect"

(* ------ decode_record (wearable_dock.c), the decoding of bin2json_mqtt.c - *)
\* #define IMU_SCALE 100.0f ; #define SCALE_FACTOR 100.0f
IMU_SCALE == 100

\* the two bytes of a 16-bit value, low byte first, as the device writes them
Bytes16(x) == << (x % 65536) % 256, (x % 65536) \div 256 >>

\* the channel values of the model's records but the one that is varied
Fillers == <<111, -222, 333, -100, 555, -32768>>

\* the record whose channel (x + 2) % 6 holds x; its timestamp and its
\* pressure take their bytes from x, so that every value of the upper and
\* of the lower half of the 32 bits occurs
RecordFor(p, x) ==
    LET b == Bytes16(x)
        stamp == << b[1], b[2], 255 - b[1], 255 - b[2] >>
        press == IF p = "bin2json" THEN <<>> ELSE << b[2], 7, b[1], 200 >>
        chan(j) == Bytes16(IF j = (x + 2) % 6 THEN x ELSE Fillers[j + 1])
    IN stamp \o press \o chan(0) \o chan(1) \o chan(2) \o chan(3) \o chan(4) \o chan(5)

\* a uint32_t as <<upper 16 bits, lower 16 bits>>: memcpy(&ts, buf, 4) on
\* the little-endian hosts the programs are built for
U32At(buf, off) ==
    << buf[off + 3] + 256 * buf[off + 4], buf[off + 1] + 256 * buf[off + 2] >>

\* a reading of the two bytes that keeps no sign
Int16_Unsigned(u) == u

\* the int16_t whose two bytes have the unsigned value u
Int16(u) == IF u >= 32768 THEN u - 65536 ELSE u

\* memcpy(&raw[i], buf + off, 2)
I16At(buf, off) == Int16(buf[off + 1] + 256 * buf[off + 2])

DigitChar(d) == <<"0", "1", "2", "3", "4", "5", "6", "7", "8", "9">>[d + 1]

RECURSIVE Digits(_)
\* %d of a natural number
Digits(n) == IF n < 10 THEN <<DigitChar(n)>> ELSE Digits(n \div 10) \o <<DigitChar(n % 10)>>

RECURSIVE DigitsU32(_)
\* %u of a uint32_t given as <<upper, lower>>: its decimal digits
DigitsU32(v) ==
    LET t == (v[1] % 10) * 65536 + v[2] IN
    IF v[1] = 0 /\ v[2] < 10
    THEN <<DigitChar(v[2])>>
    ELSE DigitsU32(<< v[1] \div 10, t \div 10 >>) \o <<DigitChar(t % 10)>>

RECURSIVE Normalised(_, _)
\* a * 2^k with the k that brings a / IMU_SCALE to a 24-bit significand
Normalised(n, k) ==
    IF n >= IMU_SCALE * 2^23 THEN <<n, k>> ELSE Normalised(2 * n, k + 1)

\* n / d rounded to the nearest integer, ties to even
RoundDiv(n, d) ==
    LET q == n \div d
        r == n % d
    IN IF 2 * r > d \/ (2 * r = d /\ q % 2 = 1) THEN q + 1 ELSE q

\* the float a / 100.0f for an integer a > 0, as <<q, k>>: the value q / 2^k
FloatDiv(a) ==
    LET nk == Normalised(a, 0) IN << RoundDiv(nk[1], IMU_SCALE), nk[2] >>

\* %.2f of the float raw / 100.0f: sign, digits, point, two decimals
Fixed2(raw) ==
    LET a == IF raw < 0 THEN 0 - raw ELSE raw
        f == FloatDiv(a)
        h == IF a = 0 THEN 0 ELSE RoundDiv(f[1] * 100, 2^(f[2]))
    IN (IF raw < 0 THEN <<"-">> ELSE <<>>)
        \o Digits(h \div 100) \o <<".">>
        \o <<DigitChar((h % 100) \div 10), DigitChar(h % 10)>>

\* where the channels start: buf + 8 in wearable_dock.c, buf + 4 in bin2json_mqtt.c
ChannelBase(p) == IF p = "bin2json" THEN 4 ELSE 8

\* the payload of a record; the value of pressure_pa is kept as the raw
\* 32 bits it is computed from
Payload(p, buf) ==
    LET ch(i) == Fixed2(I16At(buf, ChannelBase(p) + 2 * i)) IN
    << <<"timestamp_ms", DigitsU32(U32At(buf, 0))>> >>
    \o (IF p = "bin2json" THEN <<>> ELSE << <<"pressure_pa", U32At(buf, 4)>> >>)
    \o << <<"acceleration", <<ch(0), ch(1), ch(2)>> >>,
          <<"gyroscope", <<ch(3), ch(4), ch(5)>> >> >>

\* a record of either layout has been read into buf
DecInit ==
    /\ pc = "dc_call"
    /\ prog \in {"dock", "bin2json"}
    /\ \E x \in -32768..32767 : dc_buf = RecordFor(prog, x)
    /\ dc_out = <<>>
    /\ HostIdle
    /\ InitJoin
    /\ InitCopy
    /\ InitPub
    /\ InitArch

\* decode_record and the snprintf of the payload
decode_record ==
    /\ pc = "dc_call"
    /\ dc_out' = Payload(prog, dc_buf)
    /\ pc' = "dc_done"
    /\ UNCHANGED <<hostVars, joinVars, copyVars, pubVars, archVars, dc_buf>>

DecNext == decode_record

DecodeSpec == DecInit /\ [][DecNext]_vars

RECURSIVE ParseU32(_, _)
\* the number a sequence of decimal digits denotes, as <<upper, lower>>
ParseU32(digs, acc) ==
    IF digs = <<>> THEN acc
    ELSE LET d == CHOOSE n \in 0..9 : DigitChar(n) = Head(digs)
             t == acc[2] * 10 + d
         IN ParseU32(Tail(digs), << acc[1] * 10 + t \div 65536, t % 65536 >>)

\* the decimal notation of raw / 100 with two decimals
Hundredths(raw) ==
    LET a == IF raw < 0 THEN 0 - raw ELSE raw IN
    (IF raw < 0 THEN <<"-">> ELSE <<>>)
        \o Digits(a \div 100) \o <<".">>
        \o <<DigitChar((a % 100) \div 10), DigitChar(a % 10)>>

\* the signed 16-bit little-endian value of channel i of the record in buf
RawChannel(i) ==
    LET o == ChannelBase(prog) + 2 * i
        u == dc_buf[o + 1] + 256 * dc_buf[o + 2]
    IN IF u >= 32768 THEN u - 65536 ELSE u

\* the keys of the payload, in order
Keys == [i \in 1..Len(dc_out) |-> dc_out[i][1]]

\* C16: the payload has the keys timestamp_ms, pressure_pa (20-byte layout
\* only), acceleration, gyroscope in this order; the timestamp printed is
\* the little-endian unsigned value of bytes 0..3; each channel is printed
\* as its little-endian signed raw value over 100 with two decimals, the
\* first three under acceleration and the last three under gyroscope.
C16_PayloadOfRecord ==
    pc = "dc_done" =>
        /\ Keys = IF prog = "bin2json"
                  THEN <<"timestamp_ms", "acceleration", "gyroscope">>
                  ELSE <<"timestamp_ms", "pressure_pa", "acceleration", "gyroscope">>
        /\ ParseU32(dc_out[1][2], <<0, 0>>)
              = << dc_buf[3] + 256 * dc_buf[4], dc_buf[1] + 256 * dc_buf[2] >>
        /\ dc_out[Len(dc_out) - 1][2]
              = [i \in 1..3 |-> Hundredths(RawChannel(i - 1))]
        /\ dc_out[Len(dc_out)][2]
              = [i \in 1..3 |-> Hundredths(RawChannel(i + 2))]

\* a record with raw 250 in the first channel and raw -100 in the fourth
\* was serialized: 2.50 under acceleration, -1.00 under gyroscope
C16_Witness ==
    /\ pc = "dc_done"
    /\ prog = "dock"
    /\ dc_out[3][2][1] = <<"2", ".", "5", "0">>
    /\ dc_out[4][2][1] = <<"-", "1", ".", "0", "0">>
    /\ RawChannel(0) = 250
    /\ RawChannel(3) = -100

(* ------- archive_session (wearable_dock.c), main (bin2json_mqtt.c) ------ *)
exceptArch == <<hostVars, joinVars, copyVars, pubVars, decVars>>

\* rename(2) of a directory onto a name: it succeeds when nothing or an
\* empty directory has the name, which it replaces
RenameReplaces(entry) == entry \in {"absent", "empty_dir"}

\* a session directory to archive, the archive root holding anything
ArchInit ==
    /\ pc = "ar_call"
    /\ prog \in {"dock", "bin2json"}
    /\ ar_root0 \in [ArchNames -> EntryKinds]
    /\ ar_root = ar_root0
    /\ ar_name \in ArchNames
    /\ ar_session = "in_place"
    /\ ar_ret = {}
    /\ HostIdle
    /\ InitJoin
    /\ InitCopy
    /\ InitPub
    /\ InitDec

\* ensure_dir(ARCHIVE_BASE) and join_path; path_join, mkdir, path_join:
\* a failure returns -1, or 1 from bin2json_mqtt.c
ArchivePrepare ==
    /\ pc = "ar_call"
    /\ \/ /\ pc' = "ar_rename"
          /\ UNCHANGED ar_ret
       \/ /\ pc' = "ar_done"
          /\ ar_ret' = IF prog = "bin2json" THEN {1} ELSE {-1}
    /\ UNCHANGED <<exceptArch, ar_root0, ar_root, ar_name, ar_session>>

\* rename(session_root, dst): it moves the session, or fails and moves
\* nothing.  wearable_dock.c returns -1 when it failed; bin2json_mqtt.c
\* reports it ("not fatal") and returns 0.
ArchiveRename ==
    /\ pc = "ar_rename"
    /\ \/ /\ RenameReplaces(ar_root[ar_name])
          /\ ar_root' = [ar_root EXCEPT ![ar_name] = "session"]
          /\ ar_session' = "moved"
          /\ ar_ret' = {0}
       \/ /\ UNCHANGED <<ar_root, ar_session>>
          /\ ar_ret' = IF prog = "bin2json" THEN {0} ELSE {-1}
    /\ pc' = "ar_done"
    /\ UNCHANGED <<exceptArch, ar_root0, ar_name>>

ArchNext == ArchivePrepare \/ ArchiveRename

ArchiveSpec == ArchInit /\ [][ArchNext]_vars

\* C18: when the archive root already holds the session's name, archiving
\* fails (archive_session does not return 0; bin2json_mqtt.c, which
\* returns 0 after a failed rename too, has reported it), and the entry
\* and the session directory are as they were.
C18_ExistingEntryKept ==
    (pc = "ar_done" /\ ar_root0[ar_name] # "absent") =>
        /\ prog = "dock" => ar_ret # {0}
        /\ ar_root = ar_root0
        /\ ar_session = "in_place"

(* ------- dfu_and_extract.c: the extraction part of handle_device -------- *)
\* the files a device can hold
DevFiles == {"f1", "f2"}

\* the first visit has found the block device; the device holds any files
ExtractInit ==
    /\ prog = "dfu"
    /\ pc = "hd_start_lfs"
    /\ fw_dir = {}
    /\ InitEnv!1 /\ InitEnv!2 /\ InitEnv!4 /\ InitEnv!5
    /\ events_sent = 1
    /\ InitLoop!1 /\ InitLoop!2 /\ InitLoop!3
    /\ spath \in Paths
    /\ visits = 1
    /\ InitLoop!6 /\ InitLoop!7 /\ InitLoop!8
    /\ mp_kind = "dir"
    /\ InitVisit
    /\ InitSub
    /\ dev_files \in SUBSET DevFiles

\* the steps of the thread from start_lfs to the return of handle_device
ExtractStep ==
    \/ start_lfs
    \/ StoreLfsPid
    \/ CopyTree
    \/ ClearTree
    \/ UmountIfMounted
    \/ WaitpidLfs
    \/ ClearLfsPid
    \/ RunChildFork
    \/ RunChildEnterWait
    \/ RunChildWaitpid

ExtractNext ==
    \/ ExtractStep
    \/ ChildExit
    \/ HelperStep
    \/ reap
    \/ forward_quit

ExtractSpec == ExtractInit /\ [][ExtractNext]_vars

\* C21: whatever the moment at which the helper mounts, every file that
\* clear_tree removed from the mount point was copied by copy_tree in the
\* same visit.
C21_RemovedWereCopied == removed \subseteq copied

\* C22: a file is removed from the device only by clear_tree started
\* after copy_tree returned 0, and then copy_tree copied the whole tree it
\* walked; after a failed copy the visit goes on without clear_tree.
C22_WipeOnlyAfterCopy ==
    [][/\ removed' # removed => (pc = "hd_clear" /\ copy_ret = {0})
       /\ (pc = "hd_copy" /\ pc' = "hd_clear") =>
              (copy_ret' = {0} /\ copied' = TreeAtMountPoint)
       /\ (pc = "hd_copy" /\ copy_ret' = {-1}) => pc' = "hd_is_mounted"]_vars

\* both files were copied and then removed from the device
C22_Witness ==
    /\ copied = DevFiles
    /\ removed = DevFiles
    /\ dev_files = {}

\* a SIGINT or SIGTERM is delivered in this step
SignalArrives == signals_sent' # signals_sent

\* C23: a SIGINT or SIGTERM that arrives while the mount helper exists,
\* from its fork until it is reaped, is sent on to the helper
\* (lfs_pid names it), and quit_flag is set.
C23_SignalForwarded ==
    [][(SignalArrives /\ helper \in {"starting", "mounted", "unmounting", "zombie"})
          => (lfs_pid > 0 /\ quit_flag' # 0)]_vars

\* C24: forward_quit sends no signal to the id of a process that has been
\* waited for: when a signal arrives and lfs_pid is positive, the helper
\* has not been reaped.
C24_NoSignalToReaped ==
    [][(SignalArrives /\ lfs_pid > 0) => helper \notin {"none", "reaped"}]_vars

\* C25: once quit_flag is set during a visit no further stage of the visit
\* is started: wearable_dock.c starts no session, copy, publish or archive
\* stage, dfu_and_extract.c starts no helper, copy_tree or clear_tree.
C25_NoStageAfterSignal ==
    [][quit_flag # 0 =>
          /\ (stage' \cap SessionStages) \subseteq stage
          /\ pc \in {"hd_start_lfs", "hd_copy", "hd_clear"} => pc' = pc]_vars

\* C26: a stage that reports a failure ends the visit: after a failed mount,
\* marker wait or session directory nothing is copied, published or archived,
\* after a failed copy_and_delete_logs the session is neither published nor
\* archived, and after a failed convert_and_publish it is not archived.
C26_FailureAborts ==
    /\ stage \cap {"mount_failed", "timed_out", "session_failed"} # {}
          => stage \cap {"copy", "publish", "archive"} = {}
    /\ "copy_failed" \in stage => stage \cap {"publish", "archive"} = {}
    /\ "publish_failed" \in stage => "archive" \notin stage

\* the run_child of the unmount that follows the copy is in progress
UmountAfterCopyRuns == rc_site = "umount" /\ pc \in {"rc_fork", "rc_forked", "rc_waitpid"}

\* C27: every return of handle_device after mount_exfat succeeded has issued
\* an unmount, and on the full path the unmount is issued after the copy and
\* before the session is published or archived.
C27_UnmountBeforeReturn ==
    /\ (pc = "w_after_visit" /\ "mount_ok" \in stage) => "umount" \in stage
    /\ pc \in {"whd_marker", "whd_marker_done", "whd_session", "whd_copy", "whd_umount"}
          => "umount" \notin stage
    /\ (pc = "whd_umount" \/ UmountAfterCopyRuns)
          => ("copy" \in stage /\ stage \cap {"publish", "archive"} = {})
    /\ (pc \in {"whd_publish", "whd_archive"} \/ stage \cap {"publish", "archive"} # {})
          => {"copy", "umount"} \subseteq stage

\* a visit that copied, unmounted, published and archived has returned
C27_Witness ==
    /\ pc = "w_after_visit"
    /\ {"mount_ok", "copy", "umount", "publish", "archive"} \subseteq stage

\* the mount command of mount_exfat has been started
MountIssued == rc_site = "mount" /\ pc \in {"rc_forked", "rc_waitpid"}

\* C28: mount is issued only when the mount point is a plain directory: a
\* stale entry that is not a directory has been replaced by a directory
\* before the mount command is started.
C28_MountOnDirectory == MountIssued => mp_kind = "dir"

\* C29: the child forked by get_dfu_serial never runs the caller's code: when
\* its execvp fails it terminates, so that at no time two processes execute
\* the visit and the main loop.
C29_ChildNeverReturns == lister # "clone"

====
